---- MODULE Spec2Model ----
(***************************************************************************)
(* A model of the M2M100 / NLLB port (m2m_100/m2m_100.py) and of the       *)
(* greedy decode loops of its parity test (m2m_100/test.py).               *)
(*                                                                         *)
(* Tensors are modelled by their shape and, along the sequence axis, by    *)
(* the provenance of each position (which input position it was projected  *)
(* from): every operation of the attention module is a per-position map, a *)
(* concatenation or a reuse, so provenance is what the claims are about.   *)
(* Python's None is the empty tuple <<>>, a present value x is <<x>>.      *)
(***************************************************************************)
EXTENDS Integers, Sequences, FiniteSets, TLC

\* ------------------------------------------------------------------ bounds
MaxLen == 2      \* longest hidden / key-value / cache sequence supplied
MaxBatch == 2    \* largest batch size of a direct module call
MaxCalls == 2    \* decoder calls of one generation
VocabMax == 2    \* vocabulary ids are 0..VocabMax
WMax == 2        \* range of the stand-in decoder's weights

\* ------------------------------------------------------- program constants
MaxSteps == 10       \* test.py: for _ in range(10)
NumRows == 2         \* test.py: [[...]] * 2, and the two sample sentences
HfStartToken == 2    \* test.py: forward_hf seeds with the literal 2

None == <<>>
Some(x) == <<x>>
IsNone(o) == o = <<>>
Val(o) == o[1]

RECURSIVE Numel(_)
Numel(shape) == IF shape = <<>> THEN 1 ELSE Head(shape) * Numel(Tail(shape))

\* ModelArgs (the fields the attention modules read)
DModels == {2, 4, 6}
HeadCounts == {2, 4}
Configs ==
  [d_model : DModels,
   encoder_attention_heads : HeadCounts,
   decoder_attention_heads : HeadCounts,
   decoder_layers : {2}]

VARIABLES config, model, pc, call, inc, gen, env, mlx, hf

vars == <<config, model, pc, call, inc, gen, env, mlx, hf>>

\* ------------------------------------------------- M2M100Attention.__init__
\* head_dim = embed_dim // num_heads, with no divisibility check;
\* scaling = head_dim ** -0.5 raises ZeroDivisionError when head_dim is 0.
AttentionInit(embed_dim, num_heads, is_decoder) ==
  LET head_dim == embed_dim \div num_heads IN
  IF head_dim = 0
  THEN [exc |-> "ZeroDivisionError", line |-> 84, module |-> None]
  ELSE [exc |-> "none", line |-> 0,
        module |-> Some([embed_dim |-> embed_dim, num_heads |-> num_heads,
                         head_dim |-> head_dim, is_decoder |-> is_decoder])]

\* M2M100ForConditionalGeneration.__init__ -> M2M100Model -> encoder layers
\* (self_attn, is_decoder False), then decoder layers (self_attn and
\* encoder_attn, is_decoder True).  The first failing constructor aborts.
ModelInit(cfg) ==
  LET e == AttentionInit(cfg.d_model, cfg.encoder_attention_heads, FALSE)
      s == AttentionInit(cfg.d_model, cfg.decoder_attention_heads, TRUE)
      x == AttentionInit(cfg.d_model, cfg.decoder_attention_heads, TRUE)
  IN  IF e.exc # "none" THEN [exc |-> e.exc, line |-> e.line, modules |-> None]
      ELSE IF s.exc # "none" THEN [exc |-> s.exc, line |-> s.line, modules |-> None]
      ELSE [exc |-> "none", line |-> 0,
            modules |-> Some([enc_self |-> Val(e.module),
                              dec_self |-> Val(s.module),
                              dec_cross |-> Val(x.module)])]

ModuleNames == {"enc_self", "dec_self", "dec_cross"}

\* ------------------------------------------------------------------ tensors
Item(src, pos, proj) == [src |-> src, pos |-> pos, proj |-> proj]

\* a [bsz, n, embed_dim] activation whose positions are from .. from+n-1 of src
Hidden(src, from, n, bsz, embed_dim) ==
  [shape |-> <<bsz, n, embed_dim>>,
   data |-> [j \in 1..n |-> Item(src, from + j - 1, "")]]

\* nn.Linear applied position by position (q_proj, k_proj, v_proj)
Linear(proj, t) ==
  [shape |-> t.shape,
   data |-> [j \in 1..Len(t.data) |-> [t.data[j] EXCEPT !.proj = proj]]]

\* a cache entry of n positions as a decoder attention module stores it:
\* (key, value), each [bsz, num_heads, n, head_dim]
CacheOfLen(m, src, n, bsz) ==
  LET sh == <<bsz, m.num_heads, n, m.head_dim>> IN
  [key |-> [shape |-> sh, data |-> [j \in 1..n |-> Item(src, j, "k")]],
   value |-> [shape |-> sh, data |-> [j \in 1..n |-> Item(src, j, "v")]]]

\* M2M100Attention._shape(tensor, seq_len, bsz):
\* reshape(bsz, seq_len, num_heads, head_dim).transpose(0, 2, 1, 3);
\* seq_len = -1 is inferred from the element count.
ShapeFn(m, t, seq_len, bsz) ==
  LET n == Numel(t.shape)
      unit == bsz * m.num_heads * m.head_dim
      len == IF seq_len = -1 THEN n \div unit ELSE seq_len
      ok == IF seq_len = -1 THEN n % unit = 0 ELSE n = unit * seq_len
  IN  IF ~ok THEN [exc |-> "ValueError", t |-> None]
      ELSE [exc |-> "none",
            t |-> Some([shape |-> <<bsz, m.num_heads, len, m.head_dim>>,
                        data |-> IF len = Len(t.data) THEN t.data
                                 ELSE [j \in 1..len |-> Item("mixed", j, "")]])]

\* tensor.reshape(shape): the element counts must agree
Reshape(t, shape) ==
  IF Numel(t.shape) # Numel(shape) THEN [exc |-> "ValueError", t |-> None]
  ELSE [exc |-> "none",
        t |-> Some([shape |-> shape,
                    data |-> IF shape[2] = Len(t.data) THEN t.data
                             ELSE [j \in 1..shape[2] |-> Item("mixed", j, "")]])]

\* mx.concatenate([a, b], axis=2) of two 4-d tensors
Concat2(a, b) ==
  IF <<a.shape[1], a.shape[2], a.shape[4]>> # <<b.shape[1], b.shape[2], b.shape[4]>>
  THEN [exc |-> "ValueError", t |-> None]
  ELSE [exc |-> "none",
        t |-> Some([shape |-> <<a.shape[1], a.shape[2], a.shape[3] + b.shape[3], a.shape[4]>>,
                    data |-> a.data \o b.data])]

\* ------------------------------------------------ M2M100Attention.__call__
\* (mutant) a supplied cache is reused whatever its length
AttnBranchAnyCache(kvs, pkv) ==
  IF ~IsNone(kvs) /\ ~IsNone(pkv) THEN "reuse"
  ELSE IF ~IsNone(kvs) THEN "cross"
  ELSE IF ~IsNone(pkv) THEN "concat"
  ELSE "self"

\* which of the four key/value branches the call takes (lines 112-125)
AttnBranch(kvs, pkv) ==
  IF ~IsNone(kvs) /\ ~IsNone(pkv) /\ Val(pkv).key.shape[3] = Val(kvs).shape[2]
    THEN "reuse"
  ELSE IF ~IsNone(kvs) THEN "cross"
  ELSE IF ~IsNone(pkv) THEN "concat"
  ELSE "self"

\* k_proj / v_proj of the key/value source, through _shape(., -1, bsz)
ProjectKV(m, src, bsz) ==
  [k |-> ShapeFn(m, Linear("k", src), -1, bsz),
   v |-> ShapeFn(m, Linear("v", src), -1, bsz)]

KvFail(exc, line, br) ==
  [exc |-> exc, line |-> line, branch |-> br, key |-> None, value |-> None]

KvOk(br, key, value) ==
  [exc |-> "none", line |-> 0, branch |-> br, key |-> key, value |-> value]

\* lines 121-122: the new key/value are appended to the cached ones
ConcatKV(br, kk, vv) ==
  IF kk.exc # "none" THEN KvFail(kk.exc, 121, br) ELSE KvOk(br, kk.t, vv.t)

KvOfBranch(br, pkv, p) ==
  CASE br = "reuse" -> KvOk(br, Some(Val(pkv).key), Some(Val(pkv).value))
    [] br = "cross" ->
         IF p.k.exc # "none" THEN KvFail(p.k.exc, 116, br) ELSE KvOk(br, p.k.t, p.v.t)
    [] br = "self" ->
         IF p.k.exc # "none" THEN KvFail(p.k.exc, 124, br) ELSE KvOk(br, p.k.t, p.v.t)
    [] br = "concat" ->
         IF p.k.exc # "none" THEN KvFail(p.k.exc, 119, br)
         ELSE ConcatKV(br, Concat2(Val(pkv).key, Val(p.k.t)),
                       Concat2(Val(pkv).value, Val(p.v.t)))

\* key_states / value_states as the chosen branch builds them (lines 112-125)
KvOfSource(m, hs, kvs, pkv, bsz, br) ==
  KvOfBranch(br, pkv, ProjectKV(m, IF br = "cross" THEN Val(kvs) ELSE hs, bsz))

AttnKeyValue(m, hs, kvs, pkv, bsz) ==
  KvOfSource(m, hs, kvs, pkv, bsz, AttnBranch(kvs, pkv))

\* (mutant) the mask's source length is not compared
AttnMaskCheckNoSrc(mask, bsz, tgt_len, src_len) ==
  IF Len(Val(mask)) # 4 \/ SubSeq(Val(mask), 1, 3) # <<bsz, 1, tgt_len>>
    THEN "ValueError" ELSE "none"

\* the mask shape check of lines 148-152 (reached only with a mask)
AttnMaskCheck(mask, bsz, tgt_len, src_len) ==
  IF Val(mask) # <<bsz, 1, tgt_len, src_len>> THEN "ValueError" ELSE "none"

\* the attention-score shape check of lines 139-143
AttnWeightsCheck(wshape, bsz, num_heads, tgt_len, src_len) ==
  IF wshape # <<bsz * num_heads, tgt_len, src_len>> THEN "ValueError" ELSE "none"

\* what the call returns (line 169): the output tensor alone; the local
\* past_key_value assigned at line 128 is dropped
AttnReturn(attn_output, past_key_value, is_decoder) == <<attn_output>>

AttnFail(exc, line, kv, cache, scores) ==
  [exc |-> exc, line |-> line, branch |-> kv.branch,
   key_states |-> kv.key, value_states |-> kv.value,
   past_key_value |-> cache, scores |-> scores, ret |-> None]

\* lines 127-128: the local past_key_value is rebound for a decoder module
LocalCache(m, pkv, kv) ==
  IF kv.exc = "none" /\ m.is_decoder
    THEN Some([key |-> Val(kv.key), value |-> Val(kv.value)])
  ELSE pkv

\* line 130
ProjShape(m, hs) == <<hs.shape[1] * m.num_heads, hs.shape[2], m.head_dim>>

\* line 132: _shape(query_states, tgt_len, bsz).reshape(proj_shape)
ReshapeQuery(q1, proj_shape) ==
  IF q1.exc = "none" THEN Reshape(Val(q1.t), proj_shape) ELSE q1

QueryStates(m, hs) ==
  ReshapeQuery(ShapeFn(m, Linear("q", hs), hs.shape[2], hs.shape[1]), ProjShape(m, hs))

\* lines 154-169: add the mask, softmax, weight the values, project, return
AttnOutput(m, hs, kv, cache, q, k, v, wshape) ==
  [exc |-> "none", line |-> 0, branch |-> kv.branch,
   key_states |-> kv.key, value_states |-> kv.value,
   past_key_value |-> cache,
   scores |-> Some([shape |-> wshape, masked |-> TRUE]),
   ret |-> Some(AttnReturn(
             [shape |-> <<hs.shape[1], hs.shape[2], m.embed_dim>>,
              data |-> [i \in 1..hs.shape[2] |->
                          [query |-> q.data[i], keys |-> k.data,
                           values |-> v.data, masked |-> TRUE]]],
             cache, m.is_decoder))]

\* lines 136-152: src_len, the scores and the two shape checks; line 146
\* reads attention_mask.shape before the test for None
AttnChecks(m, hs, mask, kv, cache, q, k, v, src_len, wshape) ==
  IF AttnWeightsCheck(wshape, hs.shape[1], m.num_heads, hs.shape[2], src_len) # "none"
    THEN AttnFail("ValueError", 140, kv, cache, Some([shape |-> wshape, masked |-> FALSE]))
  ELSE IF IsNone(mask)
    THEN AttnFail("AttributeError", 146, kv, cache, Some([shape |-> wshape, masked |-> FALSE]))
  ELSE IF AttnMaskCheck(mask, hs.shape[1], hs.shape[2], src_len) # "none"
    THEN AttnFail("ValueError", 150, kv, cache, Some([shape |-> wshape, masked |-> FALSE]))
  ELSE AttnOutput(m, hs, kv, cache, q, k, v, wshape)

\* lines 132-137: the three reshapes into proj_shape and the score product
AttnReshaped(m, hs, mask, kv, cache, q, k, v) ==
  IF q.exc # "none" THEN AttnFail(q.exc, 132, kv, cache, None)
  ELSE IF k.exc # "none" THEN AttnFail(k.exc, 133, kv, cache, None)
  ELSE IF v.exc # "none" THEN AttnFail(v.exc, 134, kv, cache, None)
  ELSE AttnChecks(m, hs, mask, kv, cache, Val(q.t), Val(k.t), Val(v.t),
                  Val(k.t).shape[2],
                  <<Val(q.t).shape[1], Val(q.t).shape[2], Val(k.t).shape[2]>>)

AttnAfterKV(m, hs, pkv, mask, kv) ==
  IF kv.exc # "none" THEN AttnFail(kv.exc, kv.line, kv, pkv, None)
  ELSE AttnReshaped(m, hs, mask, kv, LocalCache(m, pkv, kv),
                    QueryStates(m, hs),
                    Reshape(Val(kv.key), ProjShape(m, hs)),
                    Reshape(Val(kv.value), ProjShape(m, hs)))

Attention(m, hs, kvs, pkv, mask) ==
  AttnAfterKV(m, hs, pkv, mask, AttnKeyValue(m, hs, kvs, pkv, hs.shape[1]))

\* the cache component of a returned tuple, if the call returned one
ReturnedCache(ret) ==
  IF ~IsNone(ret) /\ Len(Val(ret)) >= 2 THEN Some(Val(ret)[2]) ELSE None

\* ------------------------- M2M100SinusoidalPositionalEmbedding.__call__
\* return self.weights(input_ids): the sinusoid is evaluated at the values of
\* input_ids themselves; past_key_values_length is not read.  The result is
\* the sequence of scalars whose encoding is returned, one per position.
PositionIndices(input_ids, past_key_values_length) ==
  [j \in 1..Len(input_ids) |-> input_ids[j]]

\* --------------------------------------------- M2M100DecoderLayer.__call__
\* self-attention is always called with past_key_value=None (line 255), the
\* cross-attention too (line 267); the layer returns hidden_states alone.
LayerSelfPast == None

LayerFail(r, at) ==
  [exc |-> r.exc, line |-> r.line, at |-> at, self_past |-> LayerSelfPast,
   ret |-> None]

\* line 277
LayerOk(hs, embed_dim) ==
  [exc |-> "none", line |-> 0, at |-> "", self_past |-> LayerSelfPast,
   ret |-> Some(<<Hidden("layer", 1, hs.shape[2], hs.shape[1], embed_dim)>>)]

LayerAfterCross(ms, hs, ca) ==
  IF ca.exc # "none" THEN LayerFail(ca, "encoder_attn")
  ELSE LayerOk(hs, ms.dec_self.embed_dim)

\* lines 257-269
LayerAfterSelf(ms, hs, enc, enc_mask, sa) ==
  IF sa.exc # "none" THEN LayerFail(sa, "self_attn")
  ELSE IF IsNone(enc) THEN LayerOk(hs, ms.dec_self.embed_dim)
  ELSE LayerAfterCross(ms, hs,
         Attention(ms.dec_cross,
                   Hidden("sa", 1, hs.shape[2], hs.shape[1], ms.dec_self.embed_dim),
                   enc, None, enc_mask))

DecoderLayer(ms, hs, enc, mask, enc_mask) ==
  LayerAfterSelf(ms, hs, enc, enc_mask,
                 Attention(ms.dec_self, hs, None, LayerSelfPast, mask))

\* -------------------------------------------------- M2M100Decoder.__call__
\* line 342 calls input_ids.size(); on an mx.array size is an int attribute,
\* so the call raises TypeError before anything else runs.
ArraySizeCall(input_ids) == "TypeError"

DecoderAfterLayers(cfg, input_ids, l) ==
  IF l.exc # "none" THEN [exc |-> l.exc, line |-> l.line, ret |-> None]
  ELSE [exc |-> "none", line |-> 0,
        ret |-> Some(<<Hidden("dec", 1, Len(input_ids.ids), input_ids.bsz, cfg.d_model)>>)]

Decoder(ms, cfg, input_ids, enc, mask, enc_mask, past_key_values) ==
  IF ArraySizeCall(input_ids) # "none"
    THEN [exc |-> ArraySizeCall(input_ids), line |-> 342, ret |-> None]
  ELSE DecoderAfterLayers(cfg, input_ids,
         DecoderLayer(ms, Hidden("emb", 1, Len(input_ids.ids), input_ids.bsz, cfg.d_model),
                      enc, mask, enc_mask))

\* ---------------------------------------------------------------- inputs
OptLen == 0..MaxLen   \* 0 stands for an argument that is None

\* length of the key/value sequence a call attends to
KvLen(tgt, kvlen, pastlen) ==
  IF kvlen > 0 /\ pastlen = kvlen THEN pastlen
  ELSE IF kvlen > 0 THEN kvlen
  ELSE pastlen + tgt

MaskChoices(bsz, tgt, L) ==
  {None, Some(<<bsz, 1, tgt, L>>), Some(<<bsz, 1, tgt, tgt>>),
   Some(<<bsz, 1, tgt, L + 1>>), Some(<<bsz, 1, tgt + 1, L>>),
   Some(<<bsz + 1, 1, tgt, L>>), Some(<<bsz, 2, tgt, L>>), Some(<<bsz, tgt, L>>)}

TokenIds == 0..2

NoCall == [op |-> "none"]
IncInit == [steps |-> 0, cache |-> None, keys |-> <<>>, values |-> <<>>, exc |-> "none"]
GenInit == [calls |-> 0, supplied |-> 0, last_n |-> 0, exc |-> "none",
            ret |-> None, caches |-> None]

Modules == Val(model.modules)

\* ===================================================== test.py: the loops
Rows == 1..NumRows
Vocab == 0..VocabMax

\* Stand-in for model.decode followed by lm_head (m2m_100_model is not among
\* the sources): some deterministic, causal function of its arguments that
\* yields one score per vocabulary id at every position.  Ties occur.
DecodeLogits(w, enc_row, ids_row, mask_row) ==
  [j \in 1..Len(ids_row) |->
     [v \in Vocab |->
        IF mask_row[j] = 0 THEN 0
        ELSE (w.a * v + w.b * ids_row[j] + enc_row * (v + j)) % (VocabMax + 2)]]

Decode(e, ids, mask) ==
  [r \in Rows |-> DecodeLogits(e.weights, e.enc[r], ids[r], mask[r])]

\* logits[:, -1, :]
LastPosition(out) == [r \in Rows |-> out[r][Len(out[r])]]

\* (mutant) the last index holding the maximum
ArgMaxLastTie(row) ==
  CHOOSE v \in DOMAIN row :
    /\ \A u \in DOMAIN row : row[u] <= row[v]
    /\ \A u \in DOMAIN row : u > v => row[u] < row[v]

\* argmax(logits, axis=-1): the first index holding the maximum
ArgMax(row) ==
  CHOOSE v \in DOMAIN row :
    /\ \A u \in DOMAIN row : row[u] <= row[v]
    /\ \A u \in DOMAIN row : u < v => row[u] < row[v]

NextToken(logits) == [r \in Rows |-> ArgMax(logits[r])]

\* concatenate([decoder_input_ids, next_token], axis=1)
AppendToken(ids, next) == [r \in Rows |-> Append(ids[r], next[r])]

\* concatenate([decoder_input_mask, ones], axis=1)
ExtendMask(mask) == [r \in Rows |-> Append(mask[r], 1)]

\* forward_mlx seeds with the config's eos_token_id, forward_hf with 2
InitialIdsMlx(e) == [r \in Rows |-> <<e.eos_token_id, e.fra>>]
InitialIdsHf(e) == [r \in Rows |-> <<HfStartToken, e.fra>>]
InitialMask == [r \in Rows |-> <<1, 1>>]

\* (mutant) stop as soon as every row has just generated the eos id
LoopStopsAtEos(l) ==
  /\ l.step < MaxSteps
  /\ ~(l.step > 0 /\ \A r \in Rows : l.ids[r][Len(l.ids[r])] = env.eos_token_id)

\* for _ in range(10)
LoopContinues(l) == l.step < MaxSteps

\* hist and snap record, per step, the logits used and the ids and mask held
LoopStart(ids) ==
  [pc |-> "loop", step |-> 0, ids |-> ids, mask |-> InitialMask,
   out |-> None, hist |-> <<>>,
   snap |-> <<[ids |-> ids, mask |-> InitialMask]>>]

\* one iteration of either loop body
LoopBody(e, l) ==
  LET out == Decode(e, l.ids, l.mask)
      logits == LastPosition(out)
      next == NextToken(logits)
  IN  [pc |-> "loop", step |-> l.step + 1,
       ids |-> AppendToken(l.ids, next), mask |-> ExtendMask(l.mask),
       out |-> Some(out), hist |-> Append(l.hist, logits),
       snap |-> Append(l.snap, [ids |-> AppendToken(l.ids, next),
                                mask |-> ExtendMask(l.mask)])]

LoopOff == [pc |-> "off", step |-> 0, ids |-> <<>>, mask |-> <<>>,
            out |-> None, hist |-> <<>>, snap |-> <<>>]
EnvOff == [weights |-> [a |-> 0, b |-> 0], enc |-> <<>>, eos_token_id |-> 0, fra |-> 0]

Envs ==
  [weights : [a : 0..WMax, b : 0..WMax],
   enc : [Rows -> 0..1],
   eos_token_id : Vocab,
   fra : Vocab]

\* ========================================================= state machines
ConfigOff == [d_model |-> 0, encoder_attention_heads |-> 0,
              decoder_attention_heads |-> 0, decoder_layers |-> 0]
ModelNew == [exc |-> "none", line |-> 0, modules |-> None]

\* --------------------------------------------------------- m2m_100.py
Init ==
  /\ config \in Configs
  /\ model = ModelNew
  /\ pc = "new"
  /\ call = NoCall
  /\ inc = IncInit
  /\ gen = GenInit
  /\ env = EnvOff /\ mlx = LoopOff /\ hf = LoopOff

\* M2M100ForConditionalGeneration(config)
Construct ==
  /\ pc = "new"
  /\ model' = ModelInit(config)
  /\ pc' = IF model'.exc = "none" THEN "idle" ELSE "failed"
  /\ UNCHANGED <<config, call, inc, gen, env, mlx, hf>>

\* one call of an attention module, with any combination of arguments
AttnCall ==
  /\ pc = "idle"
  /\ \E name \in ModuleNames, bsz \in 1..MaxBatch, tgt \in 1..MaxLen,
        kvlen \in OptLen, pastlen \in OptLen :
       \E mask \in MaskChoices(bsz, tgt, KvLen(tgt, kvlen, pastlen)) :
         LET m == Modules[name]
             hs == Hidden("h", pastlen + 1, tgt, bsz, m.embed_dim)
             kvs == IF kvlen = 0 THEN None
                    ELSE Some(Hidden("e", 1, kvlen, bsz, m.embed_dim))
             pkv == IF pastlen = 0 THEN None
                    ELSE Some(CacheOfLen(m, "c", pastlen, bsz))
         IN  call' = [op |-> "attn", module |-> name, m |-> m, hs |-> hs,
                      kvs |-> kvs, pkv |-> pkv, mask |-> mask,
                      res |-> Attention(m, hs, kvs, pkv, mask)]
  /\ pc' = "returned"
  /\ UNCHANGED <<config, model, inc, gen, env, mlx, hf>>

\* one call of a positional embedding module
PosEmbedCall ==
  /\ pc = "idle"
  /\ \E n \in 1..MaxLen, k \in 0..MaxLen :
       \E ids \in [1..n -> TokenIds] :
         call' = [op |-> "pos", input_ids |-> ids, past |-> k,
                  res |-> PositionIndices(ids, k)]
  /\ pc' = "returned"
  /\ UNCHANGED <<config, model, inc, gen, env, mlx, hf>>

\* one call of a decoder layer
LayerCall ==
  /\ pc = "idle"
  /\ \E bsz \in 1..MaxBatch, tgt \in 1..MaxLen, enclen \in OptLen :
       \E mask \in {None, Some(<<bsz, 1, tgt, tgt>>)},
          enc_mask \in {None, Some(<<bsz, 1, tgt, enclen>>)} :
         LET hs == Hidden("h", 1, tgt, bsz, config.d_model)
             enc == IF enclen = 0 THEN None
                    ELSE Some(Hidden("e", 1, enclen, bsz, config.d_model))
         IN  call' = [op |-> "layer", hs |-> hs, enc |-> enc, mask |-> mask,
                      enc_mask |-> enc_mask,
                      res |-> DecoderLayer(Modules, hs, enc, mask, enc_mask)]
  /\ pc' = "returned"
  /\ UNCHANGED <<config, model, inc, gen, env, mlx, hf>>

\* the caller has read the result
Return ==
  /\ pc = "returned"
  /\ pc' = "idle"
  /\ call' = NoCall
  /\ UNCHANGED <<config, model, inc, gen, env, mlx, hf>>

IncAfter(steps, r) ==
  [steps |-> steps + 1,
   cache |-> ReturnedCache(r.ret),
   keys |-> IF IsNone(r.key_states) THEN <<>> ELSE Val(r.key_states).data,
   values |-> IF IsNone(r.value_states) THEN <<>> ELSE Val(r.value_states).data,
   exc |-> r.exc]

IncCall(m, steps, cache, past) ==
  IncAfter(steps,
           Attention(m, Hidden("h", steps + 1, 1, 1, m.embed_dim), None, cache,
                     Some(<<1, 1, 1, past + 1>>)))

\* Incremental self-attention: the caller feeds position steps+1 alone and
\* passes whatever cache the previous call returned.
IncStep ==
  /\ pc = "idle"
  /\ inc.exc = "none"
  /\ inc.steps < MaxLen
  /\ inc' = IncCall(Modules.dec_self, inc.steps, inc.cache,
                    IF IsNone(inc.cache) THEN 0 ELSE Val(inc.cache).key.shape[3])
  /\ UNCHANGED <<config, model, pc, call, gen, env, mlx, hf>>

GenAfter(g, n, r) ==
  [calls |-> g.calls + 1, supplied |-> g.supplied + n, last_n |-> n,
   exc |-> r.exc, ret |-> r.ret, caches |-> ReturnedCache(r.ret)]

\* One decoder call of a generation: n new token positions, with the cache
\* list the previous call returned.
DecoderCall ==
  /\ pc = "idle"
  /\ gen.exc = "none"
  /\ gen.calls < MaxCalls
  /\ \E n \in 1..MaxLen :
       gen' = GenAfter(gen, n,
                Decoder(Modules, config, [bsz |-> 1, ids |-> [j \in 1..n |-> 0]],
                        Some(Hidden("e", 1, 1, 1, config.d_model)),
                        Some(<<1, n>>), Some(<<1, 1>>), gen.caches))
  /\ UNCHANGED <<config, model, pc, call, inc, env, mlx, hf>>

Next ==
  \/ Construct
  \/ AttnCall
  \/ PosEmbedCall
  \/ LayerCall
  \/ Return
  \/ IncStep
  \/ DecoderCall

Spec == Init /\ [][Next]_vars

\* ------------------------------------------------------------ test.py
\* test_generation calls forward_hf first and forward_mlx after it returned
InitDecode ==
  /\ env \in Envs
  /\ hf = LoopStart(InitialIdsHf(env))
  /\ mlx = LoopOff
  /\ config = ConfigOff /\ model = ModelNew /\ pc = "off"
  /\ call = NoCall /\ inc = IncInit /\ gen = GenInit

\* forward_mlx is entered and seeds its ids and mask
MlxStart ==
  /\ hf.pc = "done"
  /\ mlx.pc = "off"
  /\ mlx' = LoopStart(InitialIdsMlx(env))
  /\ UNCHANGED <<config, model, pc, call, inc, gen, env, hf>>

\* one iteration of forward_mlx's loop
MlxStep ==
  /\ mlx.pc = "loop"
  /\ LoopContinues(mlx)
  /\ mlx' = LoopBody(env, mlx)
  /\ UNCHANGED <<config, model, pc, call, inc, gen, env, hf>>

\* return decoder_input_ids
MlxReturn ==
  /\ mlx.pc = "loop"
  /\ ~LoopContinues(mlx)
  /\ mlx' = [mlx EXCEPT !.pc = "done"]
  /\ UNCHANGED <<config, model, pc, call, inc, gen, env, hf>>

\* one iteration of forward_hf's loop
HfStep ==
  /\ hf.pc = "loop"
  /\ LoopContinues(hf)
  /\ hf' = LoopBody(env, hf)
  /\ UNCHANGED <<config, model, pc, call, inc, gen, env, mlx>>

HfReturn ==
  /\ hf.pc = "loop"
  /\ ~LoopContinues(hf)
  /\ hf' = [hf EXCEPT !.pc = "done"]
  /\ UNCHANGED <<config, model, pc, call, inc, gen, env, mlx>>

NextDecode ==
  \/ MlxStart
  \/ MlxStep
  \/ MlxReturn
  \/ HfStep
  \/ HfReturn

SpecDecode == InitDecode /\ [][NextDecode]_vars

\* ================================================================= claims

\* the first index holding the maximum of a score row
IsFirstMax(row, v) ==
  /\ \A u \in DOMAIN row : row[u] <= row[v]
  /\ \A u \in DOMAIN row : u < v => row[u] < row[v]

\* C1: after N iterations of forward_mlx's loop every row of the id sequence
\* has length 2 + N, begins with the two initial ids unchanged, and the id
\* appended at step s is the highest-scoring id (the first one on a tie) of
\* that step's logits at the last position; so an id that is the argmax at
\* every step has been appended N times.
C1_GreedyAppend ==
  mlx.pc # "off" => \A r \in Rows :
    /\ Len(mlx.ids[r]) = Len(InitialIdsMlx(env)[r]) + mlx.step
    /\ SubSeq(mlx.ids[r], 1, 2) = InitialIdsMlx(env)[r]
    /\ Len(mlx.mask[r]) = Len(mlx.ids[r])
    /\ Len(mlx.hist) = mlx.step
    /\ mlx.step > 0 =>
         /\ Len(Val(mlx.out)[r]) = 1 + mlx.step
         /\ mlx.hist[mlx.step][r] = Val(mlx.out)[r][1 + mlx.step]
    /\ \A s \in 1..mlx.step : IsFirstMax(mlx.hist[s][r], mlx.ids[r][2 + s])
    /\ \A v \in Vocab :
         (\A s \in 1..mlx.step : IsFirstMax(mlx.hist[s][r], v))
           => Cardinality({s \in 1..mlx.step : mlx.ids[r][2 + s] = v}) = mlx.step

\* a finished run in which one id won every step of row 1 while row 2
\* was given at least two different ids
C1_Witness ==
  /\ mlx.pc = "done"
  /\ mlx.step = MaxSteps
  /\ \A s \in 1..MaxSteps : mlx.ids[1][2 + s] = mlx.ids[1][3]
  /\ \E s \in 1..MaxSteps : mlx.ids[2][2 + s] # mlx.ids[2][3]

\* C2: forward_mlx returns after exactly MaxSteps iterations: it has never
\* returned earlier, whatever ids (the end-of-sequence id included) were
\* generated, an iteration is always possible before that, and none after.
C2_FixedSteps ==
  /\ mlx.step <= MaxSteps
  /\ mlx.pc = "done" => mlx.step = MaxSteps
  /\ (mlx.pc = "loop" /\ mlx.step < MaxSteps) => ENABLED MlxStep
  /\ (mlx.pc = "done" \/ mlx.step = MaxSteps) => ~ENABLED MlxStep

\* a finished run that generated the end-of-sequence id in every row before
\* its last step
C2_Witness ==
  /\ mlx.pc = "done"
  /\ mlx.step = MaxSteps
  /\ \A r \in Rows : \E s \in 1..(MaxSteps - 1) : mlx.ids[r][2 + s] = env.eos_token_id

ParityWhenSeedsAgree ==
  (mlx.pc # "off" /\ env.eos_token_id = HfStartToken) =>
    /\ \A s \in 0..mlx.step : mlx.snap[s + 1] = hf.snap[s + 1]
    /\ mlx.pc = "done" => mlx.ids = hf.ids

\* ------------------------------------------------------------ m2m_100.py
Constructed == pc \in {"idle", "returned"}
WellFormed(m) == m.embed_dim = m.num_heads * m.head_dim
IsAttnCall == call.op = "attn"

\* C3 (as claimed): an n-token positional-embedding call made with past
\* length k encodes the positions k, k+1, ..., k+n-1.
C3_PositionOffset ==
  call.op = "pos" =>
    call.res = [j \in 1..Len(call.input_ids) |-> call.past + j - 1]

\* the key/value a single self-attention call over positions 1..T builds
FullCall(T) ==
  Attention(Modules.dec_self, Hidden("h", 1, T, 1, Modules.dec_self.embed_dim),
            None, None, Some(<<1, 1, T, T>>))

\* C4 (as claimed): after T one-token steps of a well-formed decoder
\* self-attention module, each given the cache its predecessor returned, the
\* key/value sequence equals that of one call over the whole T positions.
C4_CacheEquivalence ==
  (Constructed /\ inc.steps >= 1 /\ WellFormed(Modules.dec_self)) =>
    /\ inc.exc = "none"
    /\ inc.keys = Val(FullCall(inc.steps).key_states).data
    /\ inc.values = Val(FullCall(inc.steps).value_states).data

\* C6: an attention call given a mask whose shape is not
\* [bsz, 1, tgt_len, src_len] (src_len the length of the key/value built)
\* ends in ValueError with nothing returned; the two explicit shape checks
\* raise only on such a mismatch; and once the scores exist with a mask of
\* exactly that shape the call completes.
C6_ShapeMismatch ==
  IsAttnCall =>
    LET r == call.res
        bsz == call.hs.shape[1]
        tgt == call.hs.shape[2]
        heads == call.m.num_heads
    IN  /\ (~IsNone(call.mask) /\ ~IsNone(r.key_states)
              /\ Val(call.mask) # <<bsz, 1, tgt, Val(r.key_states).shape[3]>>)
             => (r.exc = "ValueError" /\ IsNone(r.ret))
        /\ (r.exc # "none" /\ r.line \in {140, 150}) =>
             \/ Val(call.mask) # <<bsz, 1, tgt, Val(r.key_states).shape[3]>>
             \/ Val(r.scores).shape # <<bsz * heads, tgt, Val(r.key_states).shape[3]>>
        /\ (~IsNone(r.scores) /\ ~IsNone(call.mask)
              /\ Val(call.mask) = <<bsz, 1, tgt, Val(r.key_states).shape[3]>>
              /\ Val(r.scores).shape = <<bsz * heads, tgt, Val(r.key_states).shape[3]>>)
             => (r.exc = "none" /\ ~IsNone(r.ret))

\* the mask check of line 150 has fired on a mask with a wrong source length
C6_Witness ==
  /\ IsAttnCall
  /\ call.res.exc = "ValueError"
  /\ call.res.line = 150
  /\ IsNone(call.res.ret)
  /\ Len(Val(call.mask)) = 4
  /\ Val(call.mask)[4] # Val(call.res.key_states).shape[3]

\* C7 (as claimed): construction fails when d_model is not a multiple of a
\* head count, so every constructed attention module has
\* embed_dim = num_heads * head_dim.
C7_HeadDimInvariant ==
  /\ (pc # "new" /\ (config.d_model % config.encoder_attention_heads # 0
                      \/ config.d_model % config.decoder_attention_heads # 0))
       => model.exc # "none"
  /\ Constructed => \A name \in ModuleNames : WellFormed(Modules[name])

\* C8 (as claimed): a completed call of a decoder attention module returns
\* the output and the (key, value) pair it attended to; an encoder module
\* returns the output alone.
C8_DecoderReturnsCache ==
  (IsAttnCall /\ call.res.exc = "none") =>
    LET ret == Val(call.res.ret) IN
    IF call.m.is_decoder
      THEN /\ Len(ret) = 2
           /\ ret[2] = [key |-> Val(call.res.key_states),
                        value |-> Val(call.res.value_states)]
      ELSE Len(ret) = 1

\* C9 (as claimed): after s decoder calls of one generation the decoder has
\* returned a cache list with one entry per layer whose key length is the
\* number of positions supplied so far, and hidden states for the positions
\* of the last call only.
C9_CacheThreading ==
  gen.calls >= 1 =>
    /\ gen.exc = "none"
    /\ ~IsNone(gen.caches)
    /\ Len(Val(gen.caches)) = config.decoder_layers
    /\ \A i \in 1..Len(Val(gen.caches)) :
         Val(gen.caches)[i].key.shape[3] = gen.supplied
    /\ Val(gen.ret)[1].shape[2] = gen.last_n

\* C10: in a cross-attention call the reuse branch is taken exactly when a
\* cache is supplied whose key length equals the source length, and then the
\* cached key/value are the key/value used, unchanged; otherwise the
\* key/value are the projections of the source positions and nothing of a
\* supplied cache is in them.
C10_CrossReuse ==
  (IsAttnCall /\ ~IsNone(call.kvs)) =>
    LET r == call.res
        n == Val(call.kvs).shape[2]
        hit == ~IsNone(call.pkv) /\ Val(call.pkv).key.shape[3] = n
    IN  /\ (r.branch = "reuse") <=> hit
        /\ hit => /\ r.key_states = Some(Val(call.pkv).key)
                  /\ r.value_states = Some(Val(call.pkv).value)
        /\ ~hit =>
             /\ r.branch = "cross"
             /\ WellFormed(call.m) =>
                  /\ Val(r.key_states).data = [j \in 1..n |-> Item("e", j, "k")]
                  /\ Val(r.value_states).data = [j \in 1..n |-> Item("e", j, "v")]
                  /\ Val(r.key_states).shape = <<call.hs.shape[1], call.m.num_heads, n, call.m.head_dim>>

\* a completed cross-attention call that reused a supplied cache
C10_Witness ==
  /\ IsAttnCall
  /\ ~IsNone(call.kvs)
  /\ ~IsNone(call.pkv)
  /\ call.res.branch = "reuse"
  /\ call.res.exc = "none"
  /\ \A j \in 1..Len(Val(call.res.key_states).data) :
       Val(call.res.key_states).data[j].src = "c"

\* A hand-built cache does not help: a well-formed self-attention call given
\* a non-empty cache raises at the reshape of line 133, because proj_shape
\* carries tgt_len while the concatenated key is longer.
ConcatBranchAlwaysRaises ==
  (IsAttnCall /\ call.res.branch = "concat" /\ WellFormed(call.m)) =>
    (call.res.exc = "ValueError" /\ call.res.line = 133)

\* C11 (as claimed): the additive mask is optional.  An attention call made
\* with attention_mask = None whose scores were computed completes without
\* error, returns an output, and that output comes from the unmasked scores.
C11_MaskOptional ==
  (IsAttnCall /\ IsNone(call.mask) /\ ~IsNone(call.res.scores)) =>
    /\ call.res.exc = "none"
    /\ ~IsNone(call.res.ret)
    /\ ~Val(call.res.scores).masked

\* What the code does instead: every call without a mask that gets as far as
\* the scores stops at line 146, where attention_mask.shape is read before
\* the "is not None" test of line 148.
NoMaskAlwaysRaises ==
  (IsAttnCall /\ IsNone(call.mask) /\ ~IsNone(call.res.scores)) =>
    (call.res.exc = "AttributeError" /\ call.res.line = 146)

\* C12 (as claimed): after the reshape the key and value keep the length of
\* the key/value attended to.  A well-formed attention call whose key/value
\* were built, given a mask of the matching shape, completes and its scores
\* have shape [bsz * num_heads, tgt_len, src_len], whatever src_len is.
C12_SrcLenKept ==
  (/\ IsAttnCall
   /\ WellFormed(call.m)
   /\ ~IsNone(call.res.key_states)
   /\ ~IsNone(call.mask)
   /\ Val(call.mask) = <<call.hs.shape[1], 1, call.hs.shape[2],
                         Val(call.res.key_states).shape[3]>>) =>
    /\ call.res.exc = "none"
    /\ ~IsNone(call.res.scores)
    /\ Val(call.res.scores).shape =
         <<call.hs.shape[1] * call.m.num_heads, call.hs.shape[2],
           Val(call.res.key_states).shape[3]>>

\* What the code does instead: proj_shape (line 130) carries tgt_len and is
\* used for the key as well, so a well-formed call completes only when the
\* key/value length equals tgt_len, and raises at line 133 otherwise.
KeyLengthMustEqualTgtLen ==
  (IsAttnCall /\ WellFormed(call.m) /\ ~IsNone(call.res.key_states)) =>
    IF Val(call.res.key_states).shape[3] = call.hs.shape[2]
      THEN call.res.line # 133
    ELSE call.res.exc = "ValueError" /\ call.res.line = 133
====
